---- MODULE Spec2Model ----
(***************************************************************************)
(* Model of the query layer of mflix (src/mflix/db.py): the filter         *)
(* compiler build_query_sort_project, the paginated retriever get_movies,  *)
(* the faceted search get_movies_faceted, the movie/comment join get_movie *)
(* and the comment operations that change the comments collection.         *)
(*                                                                         *)
(* The document store is state (movies, comments).  Every function of      *)
(* db.py is one action: it reads the store, records the requests it sends  *)
(* and leaves what it returns or raises in ret.                            *)
(***************************************************************************)
EXTENDS Integers, Sequences, FiniteSets, TLC

VARIABLES
    movies,     \* the movies collection: a sequence of movie documents
    comments,   \* the comments collection: a sequence of comment documents
    inserted,   \* number of comments ever inserted (source of fresh _id values);
                \* deleting a comment does not lower it: an _id is never reused
    op,         \* the last call: its name and arguments
    ret,        \* what the last call returned or raised
    requests,   \* the store requests the last call sent, in order
    scan        \* history of a page-by-page read through get_movies

vars == <<movies, comments, inserted, op, ret, requests, scan>>

----------------------------------------------------------------------------
(* Bounds of the model.                                                    *)

MaxMovies == 2
MaxPage == 2
MaxPageSize == 2
MaxComments == 3
MaxInserted == 4

----------------------------------------------------------------------------
(* Optional values: a field that may be missing from a document.           *)

Missing == <<>>
Some(v) == <<v>>
IsMissing(o) == Len(o) = 0
Val(o) == o[1]

(* Sequence helpers. *)
RECURSIVE SumSeq(_)
SumSeq(s) == IF s = <<>> THEN 0 ELSE Head(s) + SumSeq(Tail(s))

Range(s) == {s[i] : i \in 1..Len(s)}

Min(a, b) == IF a < b THEN a ELSE b

Max(a, b) == IF a > b THEN a ELSE b

(* All orderings of the finite set S. *)
Perms(S) ==
    {p \in [1..Cardinality(S) -> S] : \A i, j \in 1..Cardinality(S) : i # j => p[i] # p[j]}

----------------------------------------------------------------------------
(* bson.ObjectId: the identifier codec used by get_movie and the comment   *)
(* operations.  An ObjectId made from 12 bytes or generated is 12 bytes    *)
(* long and its string form is 24 hex digits; one made from a str holds    *)
(* whatever bytes.fromhex reads from the 24 characters.                    *)

OidBytes == 12

HexDigits == <<"0", "1", "2", "3", "4", "5", "6", "7", "8", "9",
               "a", "b", "c", "d", "e", "f">>

UpperHexDigits == <<"0", "1", "2", "3", "4", "5", "6", "7", "8", "9",
                    "A", "B", "C", "D", "E", "F">>

LowerHexSet == Range(HexDigits)

HexSet == Range(HexDigits) \cup Range(UpperHexDigits)

IsHex(c) == c \in HexSet

(* The value of one hex digit, either case, as bytes.fromhex reads it. *)
HexVal(c) ==
    IF c \in LowerHexSet
    THEN (CHOOSE i \in 1..16 : HexDigits[i] = c) - 1
    ELSE (CHOOSE i \in 1..16 : UpperHexDigits[i] = c) - 1

(* The vertical tab (code point 11).  TLA+ has no escape for it, so the     *)
(* string holds the character itself.                                      *)
VerticalTab == ""

(* The ASCII whitespace bytes.fromhex skips before a pair of digits:       *)
(* space, tab, newline, carriage return, form feed and vertical tab.       *)
Whitespace == {" ", "\t", "\n", "\r", "\f", VerticalTab}

(* The characters of a str that are not whitespace. *)
HexPart(chars) == SelectSeq(chars, LAMBDA c : c \notin Whitespace)

(* The bytes of a sequence of hex digits of even length. *)
HexBytes(digits) ==
    [i \in 1..(Len(digits) \div 2) |->
        16 * HexVal(digits[2 * i - 1]) + HexVal(digits[2 * i])]

(* bytes.fromhex: [ok, bytes].  It reads byte after byte: whitespace       *)
(* before a byte is skipped and a byte is two adjacent hex digits.  So it  *)
(* accepts a str of hex digits and whitespace in which whitespace stands   *)
(* only after an even number of digits and the digits are even in number;  *)
(* anything else is a ValueError (ok = FALSE).                             *)
FromHex(chars) ==
    IF /\ \A k \in 1..Len(chars) : IsHex(chars[k]) \/ chars[k] \in Whitespace
       /\ \A k \in 1..Len(chars) :
              chars[k] \in Whitespace => Len(HexPart(SubSeq(chars, 1, k))) % 2 = 0
       /\ Len(HexPart(chars)) % 2 = 0
    THEN [ok |-> TRUE, bytes |-> HexBytes(HexPart(chars))]
    ELSE [ok |-> FALSE, bytes |-> <<>>]

(* str(ObjectId): lower-case hex, two digits for each byte. *)
OidHex(oid) ==
    [k \in 1..(2 * Len(oid)) |->
        IF k % 2 = 1 THEN HexDigits[(oid[(k + 1) \div 2] \div 16) + 1]
                     ELSE HexDigits[(oid[k \div 2] % 16) + 1]]

(* Python values handed to ObjectId(...): a str, bytes, an int, an         *)
(* ObjectId or None.  chars holds a str's characters, bytes the bytes of   *)
(* a bytes value or of an ObjectId.                                        *)
PyStr(chars) == [type |-> "str", chars |-> chars, bytes |-> <<>>]
PyBytes(b) == [type |-> "bytes", chars |-> <<>>, bytes |-> b]
PyOid(b) == [type |-> "ObjectId", chars |-> <<>>, bytes |-> b]
PyInt == [type |-> "int", chars |-> <<>>, bytes |-> <<>>]
PyNone == [type |-> "NoneType", chars |-> <<>>, bytes |-> <<>>]

(* A freshly generated ObjectId (ObjectId() / ObjectId(None)): equal to no *)
(* identifier stored in the collections.                                   *)
GeneratedOid == [k \in 1..OidBytes |-> 255]

(* ObjectId(id): [ok, oid, exc].  None generates a new id; 12 bytes and an *)
(* ObjectId are taken as they are; a str must have 24 characters that      *)
(* bytes.fromhex accepts, else InvalidId, and the id is the bytes read,    *)
(* fewer than 12 when the str holds whitespace; every other value raises   *)
(* TypeError.                                                              *)
ObjectId(id) ==
    IF id.type = "NoneType"
    THEN [ok |-> TRUE, oid |-> GeneratedOid, exc |-> ""]
    ELSE IF id.type = "bytes" /\ Len(id.bytes) = OidBytes
    THEN [ok |-> TRUE, oid |-> id.bytes, exc |-> ""]
    ELSE IF id.type = "ObjectId"
    THEN [ok |-> TRUE, oid |-> id.bytes, exc |-> ""]
    ELSE IF id.type = "str"
    THEN IF Len(id.chars) = 2 * OidBytes /\ FromHex(id.chars).ok
         THEN [ok |-> TRUE, oid |-> FromHex(id.chars).bytes, exc |-> ""]
         ELSE [ok |-> FALSE, oid |-> <<>>, exc |-> "InvalidId"]
    ELSE [ok |-> FALSE, oid |-> <<>>, exc |-> "TypeError"]

(* Identifiers of the documents of the model. *)
MovieOid(i) == [k \in 1..OidBytes |-> IF k = OidBytes THEN 9 + i ELSE 0]

CommentOid(n) == [k \in 1..OidBytes |-> IF k = OidBytes THEN n ELSE IF k = 1 THEN 1 ELSE 0]

----------------------------------------------------------------------------
(* Identifiers and other arguments of get_movie and of the comment         *)
(* operations.                                                             *)

User(name, email) == [name |-> name, email |-> email]

(* Identifiers handed to get_movie: the string forms of the ids of the     *)
(* movies (one more than the collection can hold, so one never matches),   *)
(* an upper-case string form, strings with whitespace, malformed strings   *)
(* and values of other types.                                              *)
UpperHex(chars) ==
    [k \in 1..Len(chars) |-> UpperHexDigits[HexVal(chars[k]) + 1]]

NotAValidId == <<"n", "o", "t", "-", "a", "-", "v", "a", "l", "i", "d", "-", "i", "d">>

NotHex == [k \in 1..(2 * OidBytes) |-> IF k = 1 THEN "g" ELSE "0"]

(* 24 characters with whitespace between the pairs of digits: accepted,   *)
(* and read as the 11 bytes 0, ..., 0, 10.                                 *)
SpacedHex == [k \in 1..(2 * OidBytes) |->
                 IF k \in {2 * OidBytes - 3, 2 * OidBytes} THEN " "
                 ELSE IF k = 2 * OidBytes - 1 THEN "a" ELSE "0"]

(* The same with vertical tabs in the place of the spaces. *)
TabbedHex == [k \in 1..(2 * OidBytes) |->
                 IF k \in {2 * OidBytes - 3, 2 * OidBytes} THEN VerticalTab
                 ELSE IF k = 2 * OidBytes - 1 THEN "a" ELSE "0"]

(* 24 characters with whitespace inside a pair of digits: rejected.        *)
SplitPair == [k \in 1..(2 * OidBytes) |->
                 IF k = 2 * OidBytes - 1 THEN " "
                 ELSE IF k = 2 * OidBytes THEN "a" ELSE "0"]

MalformedIds == {PyStr(NotAValidId), PyStr(NotHex), PyStr(SplitPair), PyStr(<<>>)}

NonStringIds == {PyInt, PyBytes(<<1, 2>>)}

MovieIds ==
    {PyStr(OidHex(MovieOid(i))) : i \in 1..(MaxMovies + 1)} \cup
    {PyStr(UpperHex(OidHex(MovieOid(1)))), PyBytes(MovieOid(1)), PyOid(MovieOid(1)), PyNone,
     PyStr(SpacedHex), PyStr(TabbedHex)}

IdInputs == MovieIds \cup MalformedIds \cup NonStringIds

(* Arguments of the comment operations. *)
Dates == {20190101, 20200101, 20200601}

(* The dates update_comment writes. *)
UpdateDates == {20200601}

Authors == {User("u1", "u1@x")}

Users == Authors \cup {User("u2", "u2@x")}

CommentMovieIds == {PyStr(OidHex(MovieOid(1))), PyStr(OidHex(MovieOid(2))), PyStr(NotAValidId)}

(* movie_id and date of the calls of add_comment: every date for the       *)
(* identifiers above, one date for the identifier with whitespace.         *)
AddInputs == (CommentMovieIds \X Dates) \cup ({PyStr(SpacedHex)} \X UpdateDates)

CommentIds == {PyStr(OidHex(CommentOid(n))) : n \in 1..MaxInserted} \cup {PyInt}

(* Failures of the store during get_movie's request, and the identifiers   *)
(* of the calls they are injected into.                                    *)
LookupFaults == {"AutoReconnect"}

FaultedIds == {PyStr(OidHex(MovieOid(1))), PyStr(SpacedHex), PyStr(NotAValidId), PyInt}

(* ObjectId(id) as the operations call it.  The results for the           *)
(* identifiers above are computed once and looked up; for every other      *)
(* value the constructor is evaluated.  ObjectIdOf(id) = ObjectId(id) for  *)
(* every id.                                                               *)
KnownIds == IdInputs \cup CommentIds \cup {input[1] : input \in AddInputs} \cup FaultedIds

KnownObjectIds == [id \in KnownIds |-> ObjectId(id)]

ObjectIdOf(id) == IF id \in KnownIds THEN KnownObjectIds[id] ELSE ObjectId(id)

----------------------------------------------------------------------------
(* Documents.                                                              *)
(* A movie document keeps the fields db.py reads: title is the set of      *)
(* words the text index holds for it, cast and genres are arrays read as   *)
(* sets, runtime, metacritic and numReviews (tomatoes.viewer.numReviews)   *)
(* are optional numbers.                                                   *)

MovieDoc(id, title, cast, genres, runtime, metacritic, numReviews) ==
    [_id |-> id, title |-> title, cast |-> cast, genres |-> genres,
     runtime |-> runtime, metacritic |-> metacritic, numReviews |-> numReviews]

(* All collections of at most MaxMovies movies whose fields are drawn from *)
(* the given sets; the movie at position i has _id MovieOid(i).            *)
MovieStores(Titles, Casts, Genres, Runtimes, Ratings, Reviews) ==
    UNION {
        {[i \in 1..n |-> MovieDoc(MovieOid(i), f[i][1], f[i][2], f[i][3], f[i][4], f[i][5], f[i][6])] :
            f \in [1..n -> Titles \X Casts \X Genres \X Runtimes \X Ratings \X Reviews]}
        : n \in 0..MaxMovies}

----------------------------------------------------------------------------
(* The filters argument: a dict (its keys and the values of the keys db.py *)
(* reads) or None.  The value of "text" is the set of search terms of the  *)
(* search string, the values of "cast" and "genres" are lists read as sets.*)

FiltersDict(keys, text, cast, genres) ==
    [none |-> FALSE, keys |-> keys, text |-> text, cast |-> cast, genres |-> genres]

FiltersNone == [none |-> TRUE, keys |-> {}, text |-> {}, cast |-> {}, genres |-> {}]

(* Python truthiness of filters: None and the empty dict are false. *)
Truthy(filters) == ~filters.none /\ filters.keys # {}

(* Query predicates, sort specifications and projections. *)
QueryAll == [kind |-> "all", field |-> "", values |-> {}]
QueryText(terms) == [kind |-> "text", field |-> "$text", values |-> terms]
QueryIn(field, values) == [kind |-> "in", field |-> field, values |-> values]

SortByReviews == [field |-> "tomatoes.viewer.numReviews", dir |-> "DESCENDING"]
SortByScore == [field |-> "score", dir |-> "textScore"]

ProjectNone == [none |-> TRUE, meta |-> {}]
ProjectScore == [none |-> FALSE, meta |-> {"score"}]

(* A variant that tests the key cast before the key text. *)
build_query_sort_project_cast_first(filters) ==
    IF Truthy(filters) /\ "cast" \in filters.keys
    THEN [query |-> QueryIn("cast", filters.cast), sort |-> SortByReviews, project |-> ProjectNone]
    ELSE IF Truthy(filters) /\ "text" \in filters.keys
    THEN [query |-> QueryText(filters.text), sort |-> SortByScore, project |-> ProjectScore]
    ELSE IF Truthy(filters) /\ "genres" \in filters.keys
    THEN [query |-> QueryIn("genres", filters.genres), sort |-> SortByReviews, project |-> ProjectNone]
    ELSE [query |-> QueryAll, sort |-> SortByReviews, project |-> ProjectNone]

(* db.py build_query_sort_project *)
build_query_sort_project(filters) ==
    IF Truthy(filters) /\ "text" \in filters.keys
    THEN [query |-> QueryText(filters.text), sort |-> SortByScore, project |-> ProjectScore]
    ELSE IF Truthy(filters) /\ "cast" \in filters.keys
    THEN [query |-> QueryIn("cast", filters.cast), sort |-> SortByReviews, project |-> ProjectNone]
    ELSE IF Truthy(filters) /\ "genres" \in filters.keys
    THEN [query |-> QueryIn("genres", filters.genres), sort |-> SortByReviews, project |-> ProjectNone]
    ELSE [query |-> QueryAll, sort |-> SortByReviews, project |-> ProjectNone]

----------------------------------------------------------------------------
(* The document store's evaluation of what db.py sends it.                 *)

(* Whether a movie matches a query predicate: {} matches everything, $text *)
(* matches a document holding at least one search term, $in matches a      *)
(* document whose array holds at least one of the values.                  *)
Matches(query, doc) ==
    CASE query.kind = "all" -> TRUE
      [] query.kind = "text" -> doc.title \cap query.values # {}
      [] query.kind = "in" /\ query.field = "cast" -> doc.cast \cap query.values # {}
      [] query.kind = "in" /\ query.field = "genres" -> doc.genres \cap query.values # {}
      [] OTHER -> FALSE

(* Positions of the movies matching the query. *)
MatchSet(store, query) == {i \in 1..Len(store) : Matches(query, store[i])}

(* The text score of a matching document: the number of search terms it    *)
(* holds.                                                                  *)
TextScore(query, doc) ==
    IF query.kind = "text" THEN Cardinality(doc.title \cap query.values) ELSE 0

(* The key the store sorts a document by, larger first.  A missing field   *)
(* sorts as null, below every number.                                      *)
SortRank(sort, query, doc) ==
    IF sort.field = "score"
    THEN TextScore(query, doc)
    ELSE IF IsMissing(doc.numReviews) THEN 0 - 1 ELSE Val(doc.numReviews)

(* The orders in which the store may deliver the matching documents under  *)
(* a descending sort: the sort fixes the order of documents with different *)
(* keys and leaves the order of documents with equal keys to the store,    *)
(* which may choose differently on every request.                          *)
SortedOrders(store, query, sort) ==
    {p \in Perms(MatchSet(store, query)) :
        \A i, j \in 1..Len(p) :
            i < j => SortRank(sort, query, store[p[i]]) >= SortRank(sort, query, store[p[j]])}

(* cursor.skip(n).limit(k) on a sequence. *)
SkipLimit(s, n, k) == SubSeq(s, n + 1, Min(n + k, Len(s)))

(* A document as find returns it: with the projection {"score": $meta}     *)
(* the document carries its text score.                                    *)
Projected(project, query, doc) ==
    IF project.none
    THEN doc
    ELSE [_id |-> doc._id, title |-> doc.title, cast |-> doc.cast, genres |-> doc.genres,
          runtime |-> doc.runtime, metacritic |-> doc.metacritic,
          numReviews |-> doc.numReviews, score |-> TextScore(query, doc)]

(* count_documents(query) *)
CountDocuments(store, query) == Cardinality(MatchSet(store, query))

----------------------------------------------------------------------------
(* db.py get_movies: the total is counted only for page 0 and is 0 for     *)
(* every other page.                                                       *)

(* A variant that counts the whole collection instead of the matches. *)
GetMoviesTotalUnfiltered(store, query, page) ==
    IF page = 0 THEN Len(store) ELSE 0

GetMoviesTotal(store, query, page) ==
    IF page = 0 THEN CountDocuments(store, query) ELSE 0

GetMoviesRequests(page) ==
    IF page = 0 THEN <<"count_documents", "find">> ELSE <<"find">>

(* The call itself: what it returns for one order chosen by the store. *)
GetMoviesCall(filters, page, movies_per_page) ==
    LET qsp == build_query_sort_project(filters)
    IN  \E order \in SortedOrders(movies, qsp.query, qsp.sort) :
            LET cursor == [i \in 1..Len(order) |-> Projected(qsp.project, qsp.query, movies[order[i]])]
                records_to_skip == movies_per_page * page
            IN  /\ op' = [name |-> "get_movies", filters |-> filters, page |-> page,
                          movies_per_page |-> movies_per_page]
                /\ ret' = [kind |-> "return",
                           movies |-> SkipLimit(cursor, records_to_skip, movies_per_page),
                           total_num_movies |-> GetMoviesTotal(movies, qsp.query, page)]
                /\ requests' = GetMoviesRequests(page)

----------------------------------------------------------------------------
(* db.py get_movies_faceted.                                               *)

(* Boundaries of the $bucket stages. *)
RuntimeBoundaries == <<0, 60, 90, 120, 180>>
RatingBoundaries == <<0, 50, 70, 90, 100>>

(* The _id of the default bucket ("other"); a range bucket has the _id     *)
(* Some(lower boundary).                                                   *)
BucketOther == <<>>

(* The bucket of one optional value: the range [b[i], b[i+1]) that holds   *)
(* it, and the default bucket for a missing value or one outside           *)
(* [b[1], b[last]).                                                        *)
BucketOf(v, boundaries) ==
    IF IsMissing(v) \/ Val(v) < boundaries[1] \/ Val(v) >= boundaries[Len(boundaries)]
    THEN BucketOther
    ELSE Some(boundaries[CHOOSE i \in 1..(Len(boundaries) - 1) :
                            boundaries[i] <= Val(v) /\ Val(v) < boundaries[i + 1]])

(* A variant without the default bucket: values outside the ranges are     *)
(* dropped.                                                                *)
BucketStageNoDefault(values, boundaries) ==
    LET all == [i \in 1..(Len(boundaries) - 1) |->
                   [_id |-> Some(boundaries[i]),
                    count |-> Cardinality({k \in 1..Len(values) :
                                  /\ ~IsMissing(values[k])
                                  /\ boundaries[i] <= Val(values[k])
                                  /\ Val(values[k]) < boundaries[i + 1]})]]
    IN  SelectSeq(all, LAMBDA b : b.count > 0)

(* $bucket with output count = $sum 1 over a sequence of optional values:  *)
(* one document per non-empty bucket, the ranges in order, "other" last.   *)
BucketStage(values, boundaries) ==
    LET id(i) == IF i < Len(boundaries) THEN Some(boundaries[i]) ELSE BucketOther
        all == [i \in 1..Len(boundaries) |->
                   [_id |-> id(i),
                    count |-> Cardinality({k \in 1..Len(values) : BucketOf(values[k], boundaries) = id(i)})]]
    IN  SelectSeq(all, LAMBDA b : b.count > 0)

(* The documents that reach the $facet stage: the match, sorted, after     *)
(* $skip and $limit.                                                       *)
FacetInput(sorted, page, movies_per_page) ==
    SkipLimit(sorted, movies_per_page * page, movies_per_page)

(* The single document the $facet stage returns. *)
FacetStage(input) ==
    [runtime |-> BucketStage([i \in 1..Len(input) |-> input[i].runtime], RuntimeBoundaries),
     rating |-> BucketStage([i \in 1..Len(input) |-> input[i].metacritic], RatingBoundaries),
     movies |-> input]

(* The counting pipeline: $count returns one document for a non-empty      *)
(* match and no document at all for an empty one.                          *)
CountStage(store, query) ==
    IF MatchSet(store, query) = {}
    THEN <<>>
    ELSE <<[count |-> Cardinality(MatchSet(store, query))]>>

(* Failures of the store.  QueryExceededMemoryLimit and Unauthorized are   *)
(* raised by the driver as OperationFailure, AutoReconnect is not one.     *)
NoFault == [request |-> "none", error |-> "none"]

Faults ==
    {NoFault} \cup
    [request : {"facet", "count"},
     error : {"QueryExceededMemoryLimit", "Unauthorized", "AutoReconnect"}]

IsOperationFailure(error) == error \in {"QueryExceededMemoryLimit", "Unauthorized"}

TooLargeMessage == "Results too large to sort, be more restrictive in filter"

Raise(exc, msg) == [kind |-> "raise", exc |-> exc, msg |-> msg]

(* What the except clause of get_movies_faceted makes of a store error. *)
FacetedStoreError(error) ==
    IF IsOperationFailure(error)
    THEN Raise("OperationFailure", TooLargeMessage)
    ELSE Raise(error, "store")

(* What get_movies_faceted returns or raises, for one order chosen by the  *)
(* store for the faceting request.                                         *)
FacetedResult(store, filters, page, movies_per_page, fault, sorted) ==
    IF filters.none
    THEN Raise("TypeError", "argument of type 'NoneType' is not iterable")
    ELSE IF "cast" \notin filters.keys
    THEN Raise("AssertionError", "No filters to pass to faceted search!")
    ELSE IF fault.request = "facet"
    THEN FacetedStoreError(fault.error)
    ELSE IF fault.request = "count"
    THEN FacetedStoreError(fault.error)
    ELSE IF CountStage(store, QueryIn("cast", filters.cast)) = <<>>
    THEN Raise("IndexError", "list index out of range")
    ELSE [kind |-> "return",
          movies |-> FacetStage(FacetInput(sorted, page, movies_per_page)),
          count |-> CountStage(store, QueryIn("cast", filters.cast))[1].count]

FacetedRequests(filters, fault) ==
    IF filters.none \/ "cast" \notin filters.keys
    THEN <<>>
    ELSE IF fault.request = "facet"
    THEN <<"aggregate:facet">>
    ELSE <<"aggregate:facet", "aggregate:count">>

GetMoviesFacetedCall(filters, page, movies_per_page, fault) ==
    \E order \in SortedOrders(movies, QueryIn("cast", filters.cast), SortByReviews) :
        /\ op' = [name |-> "get_movies_faceted", filters |-> filters, page |-> page,
                  movies_per_page |-> movies_per_page, fault |-> fault]
        /\ ret' = FacetedResult(movies, filters, page, movies_per_page, fault,
                                [i \in 1..Len(order) |-> movies[order[i]]])
        /\ requests' = FacetedRequests(filters, fault)

----------------------------------------------------------------------------
(* db.py get_movie: the movie with the given id, its comments embedded.    *)

CommentDoc(id, name, email, movie_id, text, date) ==
    [_id |-> id, name |-> name, email |-> email, movie_id |-> movie_id,
     text |-> text, date |-> date]

(* Positions of the comments the $lookup joins to a movie: those whose     *)
(* movie_id equals the movie's _id.                                        *)
JoinedComments(coll, movie) == {i \in 1..Len(coll) : coll[i].movie_id = movie._id}

(* A variant that sorts the comments by date ascending. *)
LookupOrdersAscending(coll, movie) ==
    {p \in Perms({i \in 1..Len(coll) : coll[i].movie_id = movie._id}) :
        \A i, j \in 1..Len(p) : i < j => coll[p[i]].date <= coll[p[j]].date}

(* The orders in which the inner $sort {date: -1} may deliver them. *)
LookupOrders(coll, movie) ==
    {p \in Perms(JoinedComments(coll, movie)) :
        \A i, j \in 1..Len(p) : i < j => coll[p[i]].date >= coll[p[j]].date}

(* The movie with the joined comments under the field "comments". *)
WithComments(movie, joined) ==
    [_id |-> movie._id, title |-> movie.title, cast |-> movie.cast, genres |-> movie.genres,
     runtime |-> movie.runtime, metacritic |-> movie.metacritic,
     numReviews |-> movie.numReviews, comments |-> joined]

(* The values get_movie returns: None, the empty dict {} and a movie. *)
ReturnNone == [kind |-> "return", type |-> "NoneType", movie |-> <<>>]
ReturnEmptyDict == [kind |-> "return", type |-> "dict", movie |-> <<>>]
ReturnMovie(m) == [kind |-> "return", type |-> "movie", movie |-> <<m>>]

(* Positions of the movies the $match stage lets through. *)
MatchById(store, oid) == {i \in 1..Len(store) : store[i]._id = oid}

(* InvalidId and StopIteration give None, every other exception gives {}.  *)
GetMovieExcept(exc) ==
    IF exc \in {"InvalidId", "StopIteration"} THEN ReturnNone ELSE ReturnEmptyDict

GetMovieCall(id, fault) ==
    LET parsed == ObjectIdOf(id)
    IN  /\ op' = [name |-> "get_movie", id |-> id, fault |-> fault]
        /\ IF ~parsed.ok
           THEN /\ ret' = GetMovieExcept(parsed.exc)
                /\ requests' = <<>>
           ELSE IF fault # "none"
           THEN /\ ret' = GetMovieExcept(fault)
                /\ requests' = <<"aggregate:lookup">>
           ELSE IF MatchById(movies, parsed.oid) = {}
           THEN /\ ret' = GetMovieExcept("StopIteration")
                /\ requests' = <<"aggregate:lookup">>
           ELSE \E i \in MatchById(movies, parsed.oid) :
                \E order \in LookupOrders(comments, movies[i]) :
                    /\ ret' = ReturnMovie(WithComments(movies[i],
                                  [k \in 1..Len(order) |-> comments[order[k]]]))
                    /\ requests' = <<"aggregate:lookup">>

----------------------------------------------------------------------------
(* db.py add_comment, update_comment, delete_comment: the operations that  *)
(* change the comments collection.                                         *)

AddCommentCall(movie_id, user, comment, date) ==
    LET parsed == ObjectIdOf(movie_id)
    IN  /\ op' = [name |-> "add_comment", movie_id |-> movie_id, user |-> user,
                  comment |-> comment, date |-> date]
        /\ IF ~parsed.ok
           THEN /\ ret' = Raise(parsed.exc, "ObjectId")
                /\ requests' = <<>>
                /\ UNCHANGED <<comments, inserted>>
           ELSE /\ comments' = Append(comments,
                        CommentDoc(CommentOid(inserted + 1), user.name, user.email,
                                   parsed.oid, comment, date))
                /\ inserted' = inserted + 1
                /\ ret' = [kind |-> "return", type |-> "InsertOneResult",
                           inserted_id |-> CommentOid(inserted + 1)]
                /\ requests' = <<"insert_one">>

(* Positions of the comments with the given _id written by the given user. *)
OwnComments(coll, oid, user_email) ==
    {i \in 1..Len(coll) : coll[i]._id = oid /\ coll[i].email = user_email}

UpdateCommentCall(comment_id, user_email, text, date) ==
    LET parsed == ObjectIdOf(comment_id)
    IN  /\ op' = [name |-> "update_comment", comment_id |-> comment_id,
                  user_email |-> user_email, text |-> text, date |-> date]
        /\ inserted' = inserted
        /\ IF ~parsed.ok
           THEN /\ ret' = Raise(parsed.exc, "ObjectId")
                /\ requests' = <<>>
                /\ comments' = comments
           ELSE LET hit == OwnComments(comments, parsed.oid, user_email)
                IN  /\ comments' = [i \in 1..Len(comments) |->
                            IF i \in hit
                            THEN [comments[i] EXCEPT !.text = text, !.date = date]
                            ELSE comments[i]]
                    /\ ret' = [kind |-> "return", type |-> "UpdateResult", n |-> Cardinality(hit)]
                    /\ requests' = <<"update_one">>

DeleteCommentCall(comment_id, user_email) ==
    LET parsed == ObjectIdOf(comment_id)
    IN  /\ op' = [name |-> "delete_comment", comment_id |-> comment_id,
                  user_email |-> user_email]
        /\ inserted' = inserted
        /\ IF ~parsed.ok
           THEN /\ ret' = Raise(parsed.exc, "ObjectId")
                /\ requests' = <<>>
                /\ comments' = comments
           ELSE LET hit == OwnComments(comments, parsed.oid, user_email)
                IN  /\ comments' = SelectSeq(comments,
                            LAMBDA c : ~(c._id = parsed.oid /\ c.email = user_email))
                    /\ ret' = [kind |-> "return", type |-> "DeleteResult", n |-> Cardinality(hit)]
                    /\ requests' = <<"delete_one">>

----------------------------------------------------------------------------
(* Arguments of the calls.                                                 *)

Pages == 0..MaxPage
PageSizes == 1..MaxPageSize

(* Filters handed to get_movies and build_query_sort_project: None, the    *)
(* empty dict, a dict holding only a key db.py does not read, and every    *)
(* dict over the keys text, cast and genres.  A key that is not in the     *)
(* dict has no value.                                                      *)
FilterKeys == {"text", "cast", "genres"}

FetchFilters ==
    {FiltersNone, FiltersDict({"year"}, {}, {}, {})} \cup
    {FiltersDict(keys, text, cast, genres) :
        keys \in SUBSET FilterKeys,
        text \in {{}, {"w1"}, {"w1", "w2"}},
        cast \in {{}, {"a"}},
        genres \in {{}, {"g1"}}}

WellFormed(filters) ==
    /\ ("text" \in filters.keys) = (filters.text # {})
    /\ ("cast" \in filters.keys) = (filters.cast # {})
    /\ ("genres" \in filters.keys) = (filters.genres # {})

FetchInputs == {f \in FetchFilters : f.none \/ WellFormed(f)}

(* Filters handed to get_movies_faceted: None, dicts without the key cast, *)
(* and dicts whose cast is a list of names, the empty list included.       *)
FacetFilters ==
    {FiltersNone, FiltersDict({}, {}, {}, {})} \cup
    {FiltersDict({"cast"}, {}, cast, {}) : cast \in {{}, {"a"}, {"b"}}}

----------------------------------------------------------------------------
(* Initial states.  The movies collection is any collection of at most     *)
(* MaxMovies movies; each specification varies the fields its operations   *)
(* read.  No operation of db.py changes the movies collection.  Where all  *)
(* movies have the same review count the store may deliver them in any     *)
(* order, which covers every order a collection with different review      *)
(* counts can give.                                                        *)

NoCall == [name |-> "none"]
NoReturn == [kind |-> "none"]
NoScan == [active |-> FALSE, filters |-> FiltersNone, k |-> 0, next |-> 0,
           acc |-> <<>>, done |-> FALSE]

InitRest ==
    /\ comments = <<>>
    /\ inserted = 0
    /\ op = NoCall
    /\ ret = NoReturn
    /\ requests = <<>>
    /\ scan = NoScan

(* The collection of MaxMovies movies; the identifier of one more movie    *)
(* and a generated identifier name no movie of it.                         *)
Init ==
    /\ movies \in {s \in MovieStores({{"w1"}}, {{"a"}}, {{"g1"}}, {Some(100)}, {Some(80)},
                                      {Some(5)}) : Len(s) = MaxMovies}
    /\ InitRest

InitFetch ==
    /\ movies \in MovieStores({{"w2"}, {"w1", "w2"}}, {{"a"}, {"b"}}, {{"g1"}, {"g2"}},
                              {Missing}, {Missing}, {Some(5)})
    /\ InitRest

InitPaging ==
    /\ movies \in MovieStores({{"w1"}}, {{"a"}, {"b"}}, {{"g1"}}, {Missing}, {Missing},
                              {Missing, Some(5), Some(7)})
    /\ InitRest

InitFacet ==
    /\ movies \in MovieStores({{"w1"}}, {{"a"}, {"a", "b"}}, {{"g1"}},
                              {Missing, Some(45), Some(75), Some(200)},
                              {Missing, Some(95)}, {Some(5)})
    /\ InitRest

----------------------------------------------------------------------------
(* Actions: one per function of db.py.  The calls are synchronous and one  *)
(* at a time: a call is made when no result is outstanding, and Respond    *)
(* hands the result to the caller, after which it is discarded.            *)

Idle == ret = NoReturn

Respond ==
    /\ ~Idle
    /\ op' = NoCall
    /\ ret' = NoReturn
    /\ requests' = <<>>
    /\ UNCHANGED <<movies, comments, inserted, scan>>

BuildQuerySortProject ==
    \E filters \in FetchInputs :
        /\ Idle
        /\ op' = [name |-> "build_query_sort_project", filters |-> filters]
        /\ ret' = [kind |-> "return",
                   query |-> build_query_sort_project(filters).query,
                   sort |-> build_query_sort_project(filters).sort,
                   project |-> build_query_sort_project(filters).project]
        /\ requests' = <<>>
        /\ UNCHANGED <<movies, comments, inserted, scan>>

GetMovies ==
    \E filters \in FetchInputs, page \in Pages,
       movies_per_page \in PageSizes :
        /\ Idle
        /\ GetMoviesCall(filters, page, movies_per_page)
        /\ UNCHANGED <<movies, comments, inserted, scan>>

(* get_movies called by a client that reads page after page: scan keeps    *)
(* the pages read since page 0 while the filters and the page size stay    *)
(* the same and the pages are asked for in order.                          *)
ScanAfter(filters, page, movies_per_page, got) ==
    IF page = 0
    THEN [active |-> TRUE, filters |-> filters, k |-> movies_per_page, next |-> 1,
          acc |-> got, done |-> got = <<>>]
    ELSE IF /\ scan.active
            /\ ~scan.done
            /\ scan.filters = filters
            /\ scan.k = movies_per_page
            /\ scan.next = page
    THEN [scan EXCEPT !.next = page + 1, !.acc = scan.acc \o got, !.done = got = <<>>]
    ELSE NoScan

GetMoviesPaged ==
    \E filters \in {FiltersDict({}, {}, {}, {}), FiltersDict({"cast"}, {}, {"a"}, {})},
       page \in Pages, movies_per_page \in PageSizes :
        /\ Idle
        /\ GetMoviesCall(filters, page, movies_per_page)
        /\ scan' = ScanAfter(filters, page, movies_per_page, ret'.movies)
        /\ UNCHANGED <<movies, comments, inserted>>

GetMoviesFaceted ==
    \E filters \in FacetFilters, page \in Pages, movies_per_page \in PageSizes :
        /\ Idle
        /\ GetMoviesFacetedCall(filters, page, movies_per_page, NoFault)
        /\ UNCHANGED <<movies, comments, inserted, scan>>

(* get_movies_faceted while the store fails one of the two requests; the   *)
(* page and the page size play no part in what is raised.                  *)
GetMoviesFacetedStoreFails ==
    \E filters \in FacetFilters, fault \in Faults \ {NoFault} :
        /\ Idle
        /\ GetMoviesFacetedCall(filters, 0, 1, fault)
        /\ UNCHANGED <<movies, comments, inserted, scan>>

GetMovie ==
    \E id \in IdInputs :
        /\ Idle
        /\ GetMovieCall(id, "none")
        /\ UNCHANGED <<movies, comments, inserted, scan>>

(* get_movie while the store fails the aggregate request. *)
GetMovieStoreFails ==
    \E id \in FaultedIds, fault \in LookupFaults :
        /\ Idle
        /\ GetMovieCall(id, fault)
        /\ UNCHANGED <<movies, comments, inserted, scan>>

(* add_comment.  The collection holds at most MaxComments comments, and    *)
(* at most MaxInserted comments are ever inserted; a comment can be added  *)
(* again after one was deleted, and gets a new _id.  A call whose movie_id *)
(* is rejected inserts nothing and is possible in every state.             *)
AddComment ==
    \E input \in AddInputs, user \in Authors :
        /\ Idle
        /\ ObjectIdOf(input[1]).ok => Len(comments) < MaxComments /\ inserted < MaxInserted
        /\ AddCommentCall(input[1], user, "text", input[2])
        /\ UNCHANGED <<movies, scan>>

UpdateComment ==
    \E comment_id \in CommentIds, user \in Users, date \in UpdateDates :
        /\ Idle
        /\ UpdateCommentCall(comment_id, user.email, "text", date)
        /\ UNCHANGED <<movies, scan>>

DeleteComment ==
    \E comment_id \in CommentIds, user \in Users :
        /\ Idle
        /\ DeleteCommentCall(comment_id, user.email)
        /\ UNCHANGED <<movies, scan>>

----------------------------------------------------------------------------
(* Specifications.                                                         *)

(* The movie/comment join over a comments collection changed by the        *)
(* comment operations, with a store that may fail the request of           *)
(* get_movie.                                                              *)
Next ==
    AddComment \/ UpdateComment \/ DeleteComment \/ GetMovie \/ GetMovieStoreFails \/ Respond

Spec == Init /\ [][Next]_vars

(* The filter compiler and the paginated retriever. *)
NextFetch == BuildQuerySortProject \/ GetMovies \/ Respond

SpecFetch == InitFetch /\ [][NextFetch]_vars

(* The paginated retriever read page after page. *)
NextPaging == GetMoviesPaged \/ Respond

SpecPaging == InitPaging /\ [][NextPaging]_vars

(* The faceted search. *)
NextFacet == GetMoviesFaceted \/ GetMoviesFacetedStoreFails \/ Respond

SpecFacet == InitFacet /\ [][NextFacet]_vars

----------------------------------------------------------------------------
(* Properties.                                                             *)

SumCounts(buckets) == SumSeq([i \in 1..Len(buckets) |-> buckets[i].count])

IsFaceted == op.name = "get_movies_faceted"

(* Number of movies whose cast holds at least one of the names. *)
CastMatches(names) == Cardinality({i \in 1..Len(movies) : movies[i].cast \cap names # {}})

(* A faceted call with a non-empty cast filter that the store serves. *)
FacetedServed ==
    /\ IsFaceted
    /\ ~op.filters.none
    /\ "cast" \in op.filters.keys
    /\ op.filters.cast # {}
    /\ op.fault = NoFault

(* C1, as stated: whenever get_movies_faceted returns for a non-empty cast *)
(* filter, the counts of the runtime buckets, "other" included, sum to the *)
(* number of all movies matching the cast filter, and so do the counts of  *)
(* the rating buckets.                                                     *)
C1_BucketsSumToTotal ==
    (FacetedServed /\ ret.kind = "return") =>
        /\ SumCounts(ret.movies.runtime) = CastMatches(op.filters.cast)
        /\ SumCounts(ret.movies.rating) = CastMatches(op.filters.cast)

(* C1, amended: whenever get_movies_faceted returns for a non-empty cast   *)
(* filter, the counts of the runtime buckets, "other" included, sum to the *)
(* number of movies on the returned page, and so do the counts of the      *)
(* rating buckets; the page holds the matches left after skipping          *)
(* page * pageSize of them, at most pageSize.                              *)
C1_BucketsSumToPage ==
    (FacetedServed /\ ret.kind = "return") =>
        /\ SumCounts(ret.movies.runtime) = Len(ret.movies.movies)
        /\ SumCounts(ret.movies.rating) = Len(ret.movies.movies)
        /\ Len(ret.movies.movies) =
               Min(op.movies_per_page,
                   Max(0, CastMatches(op.filters.cast) - op.page * op.movies_per_page))

(* C1 witness: a returned page shorter than the match set, with a movie in *)
(* a range bucket and a movie in the bucket "other".                       *)
C1_Witness ==
    /\ FacetedServed
    /\ ret.kind = "return"
    /\ Len(ret.movies.movies) > 0
    /\ Len(ret.movies.movies) < CastMatches(op.filters.cast)
    /\ SumCounts(ret.movies.runtime) = Len(ret.movies.movies)
    /\ \E d \in Range(movies) : d.cast \cap op.filters.cast # {} /\ IsMissing(d.runtime)
    /\ \E d \in Range(movies) : d.cast \cap op.filters.cast # {} /\ d.runtime = Some(45)

(* C2, as stated: get_movies_faceted called with a dict that has no key    *)
(* cast, or whose cast is empty, raises AssertionError, while the store    *)
(* serves every request.                                                   *)
C2_EmptyCastFilterAsserts ==
    (/\ IsFaceted
     /\ ~op.filters.none
     /\ op.fault = NoFault
     /\ ("cast" \notin op.filters.keys \/ op.filters.cast = {})) =>
        (ret.kind = "raise" /\ ret.exc = "AssertionError")

(* C3, as stated: for a non-empty cast set, when the store does not fail,  *)
(* get_movies_faceted returns and its count is the number of movies whose  *)
(* cast intersects the set, whatever the page and the page size.           *)
C3_TotalCountReturned ==
    FacetedServed =>
        /\ ret.kind = "return"
        /\ ret.count = CastMatches(op.filters.cast)

(* C4, as stated: a store failure from exceeding the memory limits is      *)
(* raised as the "too large" error, and a store failure of any other cause,*)
(* in either request, is raised as something else.                         *)
C4_TooBroadOnlyForMemoryLimit ==
    (/\ IsFaceted
     /\ ~op.filters.none
     /\ "cast" \in op.filters.keys
     /\ op.fault # NoFault) =>
        /\ ret.kind = "raise"
        /\ (op.fault.error = "QueryExceededMemoryLimit" => ret.msg = TooLargeMessage)
        /\ (op.fault.error # "QueryExceededMemoryLimit" => ret.msg # TooLargeMessage)

----------------------------------------------------------------------------

IsGetMovies == op.name = "get_movies"

(* Number of movies the intent of the filters selects: a text search       *)
(* selects the movies holding a search term, a cast or genres filter the   *)
(* movies holding one of the names, text before cast before genres; no     *)
(* filter selects every movie.                                             *)
IntentMatches(f) ==
    Cardinality({i \in 1..Len(movies) :
        IF ~f.none /\ "text" \in f.keys THEN movies[i].title \cap f.text # {}
        ELSE IF ~f.none /\ "cast" \in f.keys THEN movies[i].cast \cap f.cast # {}
        ELSE IF ~f.none /\ "genres" \in f.keys THEN movies[i].genres \cap f.genres # {}
        ELSE TRUE})

(* C5, as stated: for every page >= 1 the result of get_movies carries no  *)
(* count value, and no count request is sent.                              *)
C5_NoCountAttached ==
    (IsGetMovies /\ op.page >= 1) =>
        /\ ret.total_num_movies \notin Int
        /\ "count_documents" \notin Range(requests)

(* C7, as stated: reading get_movies page after page from page 0, with the *)
(* same filters and page size, never delivers a movie twice, and once the  *)
(* first empty page is reached the pages together hold every matching      *)
(* movie, in sort order.                                                   *)
C7_PagingStable ==
    scan.active =>
        /\ \A i, j \in 1..Len(scan.acc) : i # j => scan.acc[i]._id # scan.acc[j]._id
        /\ scan.done =>
              /\ Len(scan.acc) = IntentMatches(scan.filters)
              /\ \A i, j \in 1..Len(scan.acc) :
                    i < j => SortRank(SortByReviews, QueryAll, scan.acc[i])
                               >= SortRank(SortByReviews, QueryAll, scan.acc[j])

(* C8: build_query_sort_project returns for every filters value; with      *)
(* text present the result is the text search, its score sort and its      *)
(* score projection; else with cast present the cast predicate, else with  *)
(* genres present the genres predicate, else the match-everything          *)
(* predicate, each with the default sort and no projection; the keys after *)
(* the first one present change nothing.                                   *)
C8_CompilerPrecedence ==
    op.name = "build_query_sort_project" =>
        LET f == op.filters
            has(k) == ~f.none /\ k \in f.keys
        IN  /\ ret.kind = "return"
            /\ has("text") =>
                   /\ ret.query = [kind |-> "text", field |-> "$text", values |-> f.text]
                   /\ ret.sort = SortByScore
                   /\ ret.project = ProjectScore
            /\ (~has("text") /\ has("cast")) =>
                   ret.query = [kind |-> "in", field |-> "cast", values |-> f.cast]
            /\ (~has("text") /\ ~has("cast") /\ has("genres")) =>
                   ret.query = [kind |-> "in", field |-> "genres", values |-> f.genres]
            /\ (~has("text") /\ ~has("cast") /\ ~has("genres")) =>
                   ret.query = [kind |-> "all", field |-> "", values |-> {}]
            /\ ~has("text") => (ret.sort = SortByReviews /\ ret.project = ProjectNone)

(* C8 witness: a compilation of filters holding text, cast and genres. *)
C8_Witness ==
    /\ op.name = "build_query_sort_project"
    /\ ~op.filters.none
    /\ {"text", "cast", "genres"} \subseteq op.filters.keys
    /\ ret.query.kind = "text"

(* C9: on page 0 the count get_movies returns is the number of all movies  *)
(* the intent selects, whatever the page size.                             *)
C9_FirstPageCountsAllMatches ==
    (IsGetMovies /\ op.page = 0) =>
        /\ ret.kind = "return"
        /\ ret.total_num_movies = IntentMatches(op.filters)

(* C9 witness: a first page that is full while more movies match. *)
C9_Witness ==
    /\ IsGetMovies
    /\ op.page = 0
    /\ "cast" \in op.filters.keys
    /\ Len(ret.movies) = op.movies_per_page
    /\ ret.total_num_movies > op.movies_per_page

----------------------------------------------------------------------------

IsGetMovie == op.name = "get_movie"

(* The forms in which an identifier names a movie: the hex string of its   *)
(* _id in either case, the 12 bytes, or the ObjectId itself.               *)
Identifies(id, movie) ==
    id \in {PyStr(OidHex(movie._id)), PyStr(UpperHex(OidHex(movie._id))),
            PyBytes(movie._id), PyOid(movie._id)}

(* C6, as stated: get_movie returns None for every identifier that cannot  *)
(* be decoded (a malformed string or a value of another type) and for      *)
(* every well-formed identifier that names no movie.                       *)
C6_AbsentForBadOrUnknownId ==
    (/\ IsGetMovie
     /\ op.fault = "none"
     /\ \/ op.id \in MalformedIds \cup NonStringIds
        \/ op.id.type = "str" /\ op.id \notin MalformedIds
                              /\ \A d \in Range(movies) : ~Identifies(op.id, d)) =>
        ret = ReturnNone

(* The result of get_movie is the movie d with exactly the comments whose  *)
(* movie_id is its _id, each once, ordered by date descending.             *)
IsMovieWithItsCommentsNewestFirst(d) ==
    /\ ret.kind = "return"
    /\ ret.type = "movie"
    /\ LET m == ret.movie[1]
       IN  /\ m._id = d._id
           /\ m.title = d.title
           /\ m.cast = d.cast
           /\ Range(m.comments) = {c \in Range(comments) : c.movie_id = d._id}
           /\ Len(m.comments) = Cardinality(Range(m.comments))
           /\ \A i, j \in 1..Len(m.comments) :
                  i < j => m.comments[i].date >= m.comments[j].date

(* C10, as stated: for every identifier that names a movie, get_movie      *)
(* returns that movie with exactly the comments whose movie_id is its _id, *)
(* each once, ordered by date descending.                                  *)
C10_MovieWithItsCommentsNewestFirst ==
    IsGetMovie =>
        \A d \in Range(movies) :
            Identifies(op.id, d) => IsMovieWithItsCommentsNewestFirst(d)

(* C10, amended: for every identifier that names a movie, get_movie        *)
(* returns that movie with exactly its comments, each once, ordered by     *)
(* date descending, when the store serves the aggregate request; when the  *)
(* store fails the request it returns the empty dict {} and no movie.      *)
C10_NewestFirstWhenServedElseEmptyDict ==
    IsGetMovie =>
        \A d \in Range(movies) :
            Identifies(op.id, d) =>
                IF op.fault = "none"
                THEN IsMovieWithItsCommentsNewestFirst(d)
                ELSE ret = ReturnEmptyDict

(* C10 witness: a movie whose comments were written on 2020-01-01,         *)
(* 2020-06-01 and 2019-01-01, in that order, returned with the comments    *)
(* ordered 2020-06-01, 2020-01-01, 2019-01-01.                             *)
C10_Witness ==
    /\ IsGetMovie
    /\ op.id = PyStr(OidHex(MovieOid(1)))
    /\ op.fault = "none"
    /\ ret.kind = "return"
    /\ ret.type = "movie"
    /\ Len(comments) = 3
    /\ [i \in 1..3 |-> comments[i].date] = <<20200101, 20200601, 20190101>>
    /\ [i \in 1..Len(ret.movie[1].comments) |-> ret.movie[1].comments[i].date]
           = <<20200601, 20200101, 20190101>>

====
